---- MODULE Spec2Model ----
(***************************************************************************)
(* CardioSim: the 10-year ASCVD risk model (risk_pce2013.py) and the       *)
(* scenario helpers built on it (app.py).                                  *)
(*                                                                         *)
(* Number representation.  Python floats are modelled in decimal fixed     *)
(* point:                                                                  *)
(*   - a float input (age, cholesterol, HDL, SBP) is an integer count of   *)
(*     millionths (Micro), for magnitudes up to 1000; a code above         *)
(*     HugeBase, HugeBase + k, stands for the float 1e<k> (k >= 20), so    *)
(*     that inputs near the top of the double range can be given.  The     *)
(*     encoding is monotone: < and = on codes are < and = on the floats;   *)
(*   - logarithms and their products are counts of millionths;             *)
(*   - the linear predictor, its terms and `mean` are counts of 1e-5;      *)
(*   - risk_pct_10y is a count of tenths of a percent (the value after     *)
(*     round(x, 1)).                                                       *)
(* math.log, math.exp and ** are computed by range reduction and series,   *)
(* to about 2e-6 absolute; the percentage agrees with the float code       *)
(* except when 100*risk lies within about 0.002 of a rounding boundary.    *)
(***************************************************************************)
EXTENDS Integers, Sequences, FiniteSets

VARIABLES
    inp,        \* the RiskInputs of the current call of the model
    res,        \* what that call produced: a RiskResult or an exception
    prev,       \* the previous call [inp, res], or None
    pc,         \* where the caller is
    base,       \* the baseline RiskInputs of the scenario helpers
    iv,         \* the interventions dict given to apply_interventions
    scenario,   \* the scenario RiskInputs
    drivers,    \* what compute_drivers produced
    months,     \* compute_timeline's argument
    m,          \* compute_timeline's loop variable
    interp,     \* the snapshot compute_timeline built in its last iteration
    rows        \* compute_timeline's rows so far

modelVars == <<inp, res, prev>>
scenarioVars == <<base, iv, scenario>>
driverVars == <<drivers>>
timelineVars == <<months, m, interp, rows>>
vars == <<inp, res, prev, pc, base, iv, scenario, drivers, months, m, interp, rows>>

-----------------------------------------------------------------------------
(* Optional values: None is <<>>, a present value v is <<v>>. *)
None == <<>>
Some(v) == <<v>>

\* The one element of a singleton set.  ValueOf({e(x) : x \in {v}}) is e with
\* x bound to the value of v: v is evaluated once, as the right-hand side of
\* a Python assignment is.
ValueOf(S) == CHOOSE x \in S : TRUE

Micro == 10^6
HugeBase == 2 * 10^9
Fx(n) == n * Micro
Tenths(n) == n * 100000
Huge(k) == HugeBase + k

-----------------------------------------------------------------------------
(* Fixed-point arithmetic *)

\* a*b/10^6 rounded, on 3-digit limbs so that no intermediate leaves 32 bits.
Mul(a, b) ==
    LET a1 == a \div 1000
        a0 == a % 1000
        b1 == b \div 1000
        b0 == b % 1000
        mid == a1 * b0 + a0 * b1
    IN  a1 * b1 + (mid \div 1000)
          + (((mid % 1000) * 1000 + a0 * b0 + 500000) \div Micro)

\* n/d in millionths, rounded, for 0 <= n < d <= 2*10^7.
Div(n, d) ==
    LET q1 == (n * 100) \div d
        r1 == (n * 100) % d
        q2 == (r1 * 100) \div d
        r2 == (r1 * 100) % d
        q3 == (r2 * 100) \div d
        r3 == (r2 * 100) % d
    IN  q1 * 10000 + q2 * 100 + q3 + (IF 2 * r3 >= d THEN 1 ELSE 0)

\* k * ln 2 in millionths.
KLn2(k) == (k * 69314718 + 50) \div 100

RECURSIVE AtanhSeries(_, _, _)
\* sum over odd n <= 13 of t/n, t running through z^n.
AtanhSeries(t, z2, n) ==
    IF n > 13 THEN 0
    ELSE ((t + (n \div 2)) \div n) + AtanhSeries(Mul(t, z2), z2, n + 2)

RECURSIVE Log2Floor(_, _)
\* the k with 2^k <= x/10^6 < 2^(k+1), searched from k upwards or downwards.
Log2Floor(x, k) ==
    IF k >= 0 /\ x >= Micro * 2^(k + 1) THEN Log2Floor(x, k + 1)
    ELSE IF k <= 0 /\ x * 2^(-k) < Micro THEN Log2Floor(x, k - 1)
    ELSE k

\* ln(x/10^6) in millionths, x > 0: x = 2^k * f with 1 <= f < 2,
\* ln x = k ln 2 + 2 atanh((f-1)/(f+1)).
LnMicro(x) ==
    LET k == Log2Floor(x, 0)
        f == IF k > 0 THEN (x + 2^(k - 1)) \div 2^k ELSE x * 2^(-k)
        z == Div(f - Micro, f + Micro)
    IN  KLn2(k) + 2 * AtanhSeries(z, Mul(z, z), 1)

\* math.log of a float code; the caller has checked x > 0.
\* ln(1e<k>) = k ln 10.
MathLog(x) == IF x > HugeBase THEN (x - HugeBase) * 2302585 ELSE LnMicro(x)

RECURSIVE ExpSeries(_, _, _)
\* sum over 1 <= n <= 12 of r^n/n!, t being the previous term.
ExpSeries(r, t, n) ==
    IF n > 12 THEN 0
    ELSE LET tn == Mul(t, r) \div n
         IN  tn + ExpSeries(r, tn, n + 1)

\* e^(x/10^6) in millionths, for -20 <= x/10^6 <= 7: x = k ln 2 + r.
ExpMicro(x) ==
    LET k == x \div 693147
        r == x - KLn2(k)
        s == Micro + ExpSeries(r, Micro, 1)
    IN  IF k >= 0 THEN s * 2^k ELSE s \div 2^(-k)

\* round(x, 1) of a percentage given in millionths: tenths, half to even.
_round1(x) ==
    LET q == x \div 100000
        r == x % 100000
    IN  IF r > 50000 \/ (r = 50000 /\ q % 2 = 1) THEN q + 1 ELSE q

\* math.exp of x given in units of 1e-5, in millionths.  Above e^7 the value
\* leaves the fixed-point range and is returned as HugeBase ("at least e^7");
\* below e^-20 it is 0 to six decimals.  The caller has checked that
\* math.exp does not overflow.
MathExp(x) ==
    IF x > 700000 THEN HugeBase
    ELSE IF x < -2000000 THEN 0
    ELSE ExpMicro(x * 10)

\* s0 ** h in millionths, 0 < s0 < 1, h >= 0: exp(h ln s0).  For h >= e^7
\* and every s0 of the model the power is below 1e-16.
Pow(s0, h) ==
    IF h >= HugeBase THEN 0
    ELSE LET y == Mul(h, LnMicro(s0))
         IN  IF y < -20 * Micro THEN 0 ELSE ExpMicro(y)

\* The indicator inverted: 0.0 if b else 1.0.
Ind_Inverted(b) == IF b THEN 0 ELSE Micro

\* 1.0 if b else 0.0
Ind(b) == IF b THEN Micro ELSE 0

-----------------------------------------------------------------------------
(* risk_pce2013.py *)

Sex == {"female", "male"}
Race == {"black", "white_or_other"}

\* The outcome of a call: exc = "" and the RiskResult's two fields, or the
\* exception raised and no result.
Returned(risk_pct, details) ==
    [exc |-> "", risk_pct_10y |-> risk_pct, details |-> details]
Raised(e) == [exc |-> e, risk_pct_10y |-> None, details |-> None]

\* tr_ln_sbp with the condition inverted.
tr_ln_sbp_Inverted(i) == IF i.on_bp_meds THEN 0 ELSE MathLog(i.sbp_mmhg)

\* Treated log-SBP channel.
tr_ln_sbp(i) == IF i.on_bp_meds THEN MathLog(i.sbp_mmhg) ELSE 0
\* Untreated log-SBP channel.
nt_ln_sbp(i) == IF i.on_bp_meds THEN 0 ELSE MathLog(i.sbp_mmhg)

\* DerivedTerms with the two age x log-SBP interactions exchanged.
DerivedTerms_Swapped(i) ==
    LET ln_age == MathLog(i.age_years)
        ln_tc == MathLog(i.total_chol_mgdl)
        ln_hdl == MathLog(i.hdl_mgdl)
        tr == tr_ln_sbp(i)
        nt == nt_ln_sbp(i)
    IN  [ln_age |-> ln_age, ln_tc |-> ln_tc, ln_hdl |-> ln_hdl,
         tr_ln_sbp |-> tr, nt_ln_sbp |-> nt,
         age_tc |-> Mul(ln_age, ln_tc),
         age_hdl |-> Mul(ln_age, ln_hdl),
         age_tr_sbp |-> Mul(ln_age, nt),
         age_nt_sbp |-> Mul(ln_age, tr),
         age_smoke |-> IF i.smoker THEN ln_age ELSE 0]

\* The derived terms, computed once per call.
DerivedTerms(i) ==
    LET ln_age == MathLog(i.age_years)
        ln_tc == MathLog(i.total_chol_mgdl)
        ln_hdl == MathLog(i.hdl_mgdl)
        tr == tr_ln_sbp(i)
        nt == nt_ln_sbp(i)
    IN  [ln_age |-> ln_age, ln_tc |-> ln_tc, ln_hdl |-> ln_hdl,
         tr_ln_sbp |-> tr, nt_ln_sbp |-> nt,
         age_tc |-> Mul(ln_age, ln_tc),
         age_hdl |-> Mul(ln_age, ln_hdl),
         age_tr_sbp |-> Mul(ln_age, tr),
         age_nt_sbp |-> Mul(ln_age, nt),
         age_smoke |-> IF i.smoker THEN ln_age ELSE 0]

is_black(i) == i.race = "black"
\* is_male comparing with a label the Sex type does not have.
is_male_WrongLabel(i) == i.sex = "Male"

is_male(i) == i.sex = "male"

\* The four linear predictors, in units of 1e-5; each coefficient is the
\* source's, in units of 1e-5.
lp_black_female(i, t) ==
      Mul(1711410, t.ln_age)
    + Mul(93960, t.ln_tc)
    - Mul(1891960, t.ln_hdl)
    + Mul(447480, t.age_hdl)
    + Mul(2929070, t.tr_ln_sbp)
    - Mul(643210, t.age_tr_sbp)
    + Mul(2781970, t.nt_ln_sbp)
    - Mul(608730, t.age_nt_sbp)
    + Mul(69080, Ind(i.smoker))
    + Mul(87380, Ind(i.diabetes))

lp_white_female(i, t) ==
      Mul(-2979900, t.ln_age)
    + Mul(488400, Mul(t.ln_age, t.ln_age))
    + Mul(1354000, t.ln_tc)
    - Mul(311400, t.age_tc)
    - Mul(1357800, t.ln_hdl)
    + Mul(314900, t.age_hdl)
    + Mul(201900, t.tr_ln_sbp)
    + Mul(195700, t.nt_ln_sbp)
    + Mul(757400, Ind(i.smoker))
    - Mul(166500, t.age_smoke)
    + Mul(66100, Ind(i.diabetes))

lp_black_male(i, t) ==
      Mul(246900, t.ln_age)
    + Mul(30200, t.ln_tc)
    - Mul(30700, t.ln_hdl)
    + Mul(191600, t.tr_ln_sbp)
    + Mul(180900, t.nt_ln_sbp)
    + Mul(54900, Ind(i.smoker))
    + Mul(64500, Ind(i.diabetes))

lp_white_male(i, t) ==
      Mul(1234400, t.ln_age)
    + Mul(1185300, t.ln_tc)
    - Mul(266400, t.age_tc)
    - Mul(799000, t.ln_hdl)
    + Mul(176900, t.age_hdl)
    + Mul(179700, t.tr_ln_sbp)
    + Mul(176400, t.nt_ln_sbp)
    + Mul(783700, Ind(i.smoker))
    - Mul(179500, t.age_smoke)
    + Mul(65800, Ind(i.diabetes))

\* The group's label, s0 (millionths), mean (1e-5) and linear predictor.
GroupModel(i, t) ==
    IF is_black(i) /\ ~is_male(i) THEN
        [group |-> "black_female", s0 |-> 953340, mean |-> 8660810,
         lp |-> lp_black_female(i, t)]
    ELSE IF ~is_black(i) /\ ~is_male(i) THEN
        [group |-> "white_female", s0 |-> 966520, mean |-> -2918170,
         lp |-> lp_white_female(i, t)]
    ELSE IF is_black(i) /\ is_male(i) THEN
        [group |-> "black_male", s0 |-> 895360, mean |-> 1954250,
         lp |-> lp_black_male(i, t)]
    ELSE
        [group |-> "white_male", s0 |-> 914360, mean |-> 6118160,
         lp |-> lp_white_male(i, t)]

\* The age gate with exclusive bounds.
AgeOutOfRange_Exclusive(i) == i.age_years <= Fx(40) \/ i.age_years >= Fx(79)

\* The age gate: PCE is defined for ages 40-79.
AgeOutOfRange(i) == i.age_years < Fx(40) \/ i.age_years > Fx(79)

compute_10y_ascvd_pce2013(i) ==
    IF AgeOutOfRange(i) THEN Returned(None, None)
    \* math.log raises ValueError on a non-positive argument
    ELSE IF i.total_chol_mgdl <= 0 \/ i.hdl_mgdl <= 0 \/ i.sbp_mmhg <= 0
    THEN Raised("ValueError")
    ELSE ValueOf({
        LET x == g.lp - g.mean
        IN  \* math.exp raises OverflowError above ln(max double) = 709.78271...
            IF x > 70978271 THEN Raised("OverflowError")
            ELSE
                LET risk == Micro - Pow(g.s0, MathExp(x))
                IN  Returned(Some(_round1(100 * risk)),
                             Some([group |-> g.group, linear_predictor |-> g.lp,
                                   s0 |-> g.s0, mean |-> g.mean]))
        : g \in {GroupModel(i, t) : t \in {DerivedTerms(i)}} })

-----------------------------------------------------------------------------
(* The model called repeatedly with slightly varied inputs:                *)
(* specification Spec.                                                     *)

Ages == {Tenths(399), Fx(40), Fx(60), Fx(78), Fx(79), Tenths(791)}
Chols == {Fx(130), Fx(320)}
Hdls == {Fx(20), Fx(100)}
Sbps == {0, Fx(1), Fx(120), Fx(200), Huge(200)}

RiskInputs ==
    [age_years : Ages, sex : Sex, race : Race,
     total_chol_mgdl : Chols, hdl_mgdl : Hdls, sbp_mmhg : Sbps,
     on_bp_meds : BOOLEAN, smoker : BOOLEAN, diabetes : BOOLEAN]

NotCalled == [exc |-> "pending", risk_pct_10y |-> None, details |-> None]

\* The variables of the scenario helpers, while they are not in use.
HelpersIdle ==
    /\ base = None /\ iv = None /\ scenario = None
    /\ drivers = None
    /\ months = 0 /\ m = 0 /\ interp = None /\ rows = <<>>

Init ==
    /\ inp \in RiskInputs
    /\ res = NotCalled
    /\ prev = None
    /\ pc = "call"
    /\ HelpersIdle

\* The call: the result is a function of the argument alone.
Call ==
    /\ pc = "call"
    /\ res' = compute_10y_ascvd_pce2013(inp)
    /\ pc' = "returned"
    /\ UNCHANGED <<inp, prev, scenarioVars, driverVars, timelineVars>>

\* The caller builds the next argument from the last one with one field
\* replaced (RiskInputs is frozen: a new object each time).
NextCall(next) ==
    /\ pc = "returned"
    /\ next /= inp
    /\ prev' = Some([inp |-> inp, res |-> res])
    /\ inp' = next
    /\ res' = NotCalled
    /\ pc' = "call"
    /\ UNCHANGED <<scenarioVars, driverVars, timelineVars>>

SetSmoker == \E b \in BOOLEAN : NextCall([inp EXCEPT !.smoker = b])
SetOnBpMeds == \E b \in BOOLEAN : NextCall([inp EXCEPT !.on_bp_meds = b])
SetSbp == \E v \in Sbps : NextCall([inp EXCEPT !.sbp_mmhg = v])

Next == Call \/ SetSmoker \/ SetOnBpMeds \/ SetSbp

Spec == Init /\ [][Next]_vars

-----------------------------------------------------------------------------
(* app.py: the scenario helpers *)

Max(a, b) == IF a >= b THEN a ELSE b
Min(a, b) == IF a <= b THEN a ELSE b

\* clamp with min and max exchanged.
clamp_Exchanged(x, lo, hi) == Min(lo, Max(hi, x))

clamp(x, lo, hi) == Max(lo, Min(hi, x))

\* risk_or_none: the percentage or None, or the exception of the call.
risk_or_none(i) ==
    LET r == compute_10y_ascvd_pce2013(i)
    IN  [exc |-> r.exc, value |-> r.risk_pct_10y]

\* apply_interventions without the `!= 0` tests: a delta of 0 is added and
\* the sum clamped.
apply_interventions_ZeroDeltaApplied(b, v) ==
    LET out1 == IF v.quit_smoking THEN [b EXCEPT !.smoker = FALSE] ELSE b
        out2 == IF v.start_bp_meds THEN [out1 EXCEPT !.on_bp_meds = TRUE]
                ELSE out1
        out3 == IF v.sbp_target /= None
                THEN [out2 EXCEPT !.sbp_mmhg =
                          clamp(v.sbp_target[1], Fx(90), Fx(200))]
                ELSE out2
        out4 == IF v.tc_delta /= None
                THEN [out3 EXCEPT !.total_chol_mgdl =
                          clamp(out3.total_chol_mgdl + v.tc_delta[1],
                                Fx(130), Fx(320))]
                ELSE out3
        out5 == IF v.hdl_delta /= None
                THEN [out4 EXCEPT !.hdl_mgdl =
                          clamp(out4.hdl_mgdl + v.hdl_delta[1],
                                Fx(20), Fx(100))]
                ELSE out4
    IN  out5

\* iv is the dict of the five interventions; a key that is absent or None is
\* None here, a number v is Some(v).  The numbers are ordinary floats (below
\* 1e3 in magnitude), for which the sums are exact in millionths.
apply_interventions(b, v) ==
    LET out1 == IF v.quit_smoking THEN [b EXCEPT !.smoker = FALSE] ELSE b
        out2 == IF v.start_bp_meds THEN [out1 EXCEPT !.on_bp_meds = TRUE]
                ELSE out1
        out3 == IF v.sbp_target /= None
                THEN [out2 EXCEPT !.sbp_mmhg =
                          clamp(v.sbp_target[1], Fx(90), Fx(200))]
                ELSE out2
        out4 == IF v.tc_delta /= None /\ v.tc_delta /= Some(0)
                THEN [out3 EXCEPT !.total_chol_mgdl =
                          clamp(out3.total_chol_mgdl + v.tc_delta[1],
                                Fx(130), Fx(320))]
                ELSE out3
        out5 == IF v.hdl_delta /= None /\ v.hdl_delta /= Some(0)
                THEN [out4 EXCEPT !.hdl_mgdl =
                          clamp(out4.hdl_mgdl + v.hdl_delta[1],
                                Fx(20), Fx(100))]
                ELSE out4
    IN  out5

\* with_one_change building the hybrid from the scenario instead.
with_one_change_FromScenario(b, s, key) == [s EXCEPT ![key] = b[key]]

\* The baseline with exactly one field replaced by the scenario's.
with_one_change(b, s, key) == [b EXCEPT ![key] = s[key]]

candidates ==
    << <<"smoker", "Smoking">>,
       <<"sbp_mmhg", "Systolic BP">>,
       <<"on_bp_meds", "BP medication">>,
       <<"total_chol_mgdl", "Total cholesterol">>,
       <<"hdl_mgdl", "HDL">>,
       <<"diabetes", "Diabetes">> >>

Abs(x) == IF x < 0 THEN -x ELSE x

\* changes.sort(key=lambda x: abs(x[1]), reverse=True).  The sort is stable:
\* entry i comes before entry j when its |delta| is larger, or equal with
\* i < j.  (Deltas are differences of percentages rounded to one decimal,
\* here exact in tenths; as floats two such differences that are equal in
\* tenths can differ in the last bit, and their order is then that of the
\* floats.)
SortByAbsDescending(changes) ==
    LET n == Len(changes)
        Before(i, j) ==
            \/ Abs(changes[i][2]) > Abs(changes[j][2])
            \/ Abs(changes[i][2]) = Abs(changes[j][2]) /\ i < j
        Rank(j) == 1 + Cardinality({i \in 1..n : Before(i, j)})
    IN  [p \in 1..n |-> changes[CHOOSE j \in 1..n : Rank(j) = p]]

RECURSIVE DriverLoop(_, _, _, _, _)
\* The loop over candidates from index k on: the changes, or the exception
\* of a model call.
DriverLoop(b, s, base_r, k, changes) ==
    IF k > Len(candidates) THEN [exc |-> "", changes |-> changes]
    ELSE
        LET key == candidates[k][1]
            label == candidates[k][2]
        IN  IF b[key] /= s[key]
            THEN ValueOf({
                   IF r.exc /= "" THEN [exc |-> r.exc, changes |-> <<>>]
                   ELSE IF r.value /= None
                   THEN DriverLoop(b, s, base_r, k + 1,
                            Append(changes, <<label, r.value[1] - base_r>>))
                   ELSE DriverLoop(b, s, base_r, k + 1, changes)
                   : r \in {risk_or_none(with_one_change(b, s, key))} })
            ELSE DriverLoop(b, s, base_r, k + 1, changes)

\* The list of (label, delta), deltas in tenths of a percent, or the
\* exception of a model call.
compute_drivers(b, s) ==
    ValueOf({
      IF base_r.exc /= "" THEN [exc |-> base_r.exc, changes |-> <<>>]
      ELSE ValueOf({
        IF scen_r.exc /= "" THEN [exc |-> scen_r.exc, changes |-> <<>>]
        ELSE IF base_r.value = None \/ scen_r.value = None
        THEN [exc |-> "", changes |-> <<>>]
        ELSE ValueOf({
          IF got.exc /= "" THEN got
          ELSE ValueOf({ [exc |-> "", changes |-> SortByAbsDescending(c)]
                         : c \in {got.changes} })
          : got \in {DriverLoop(b, s, base_r.value[1], 1, <<>>)} })
        : scen_r \in {risk_or_none(s)} })
      : base_r \in {risk_or_none(b)} })

\* a + (b - a) * t for ordinary floats and 0 <= t <= 1 (t in millionths).
_lerp(a, b, t) == a + Mul(b - a, t)

\* t = m / months if months > 0 else 1.0, in millionths.
StepRatio(mm, mo) ==
    IF mo > 0 THEN (2 * mm * Micro + mo) \div (2 * mo) ELSE Micro

\* The snapshot compute_timeline builds at ratio t.
Interpolated(b, s, t) ==
    [age_years |-> b.age_years,
     sex |-> b.sex,
     race |-> b.race,
     total_chol_mgdl |-> _lerp(b.total_chol_mgdl, s.total_chol_mgdl, t),
     hdl_mgdl |-> _lerp(b.hdl_mgdl, s.hdl_mgdl, t),
     sbp_mmhg |-> _lerp(b.sbp_mmhg, s.sbp_mmhg, t),
     on_bp_meds |-> IF t >= 500000 THEN s.on_bp_meds ELSE b.on_bp_meds,
     smoker |-> IF t >= 500000 THEN s.smoker ELSE b.smoker,
     diabetes |-> s.diabetes]

\* The variables of the repeated model calls, while they are not in use.
ModelIdle == inp = None /\ res = NotCalled /\ prev = None

-----------------------------------------------------------------------------
(* apply_interventions on a baseline and an interventions dict:            *)
(* specification SpecInterventions.                                        *)

BaseInputs ==
    [age_years : {Fx(55), Fx(85)}, sex : {"female"}, race : Race,
     total_chol_mgdl : {Fx(100), Fx(130), Fx(213), Fx(320)},
     hdl_mgdl : {Fx(20), Fx(50), Fx(110)},
     sbp_mmhg : {Fx(120), Fx(210)},
     on_bp_meds : BOOLEAN, smoker : BOOLEAN, diabetes : BOOLEAN]

Interventions ==
    [quit_smoking : BOOLEAN, start_bp_meds : BOOLEAN,
     sbp_target : {None, Some(Fx(80)), Some(Fx(90)), Some(Fx(150)),
                   Some(Fx(230))},
     tc_delta : {None, Some(0), Some(Fx(-80)), Some(Fx(5)), Some(Fx(80))},
     hdl_delta : {Some(0), Some(Fx(-20)), Some(Fx(1))}]

InitInterventions ==
    /\ base \in BaseInputs
    /\ iv \in Interventions
    /\ scenario = None
    /\ pc = "apply"
    /\ ModelIdle
    /\ drivers = None
    /\ months = 0 /\ m = 0 /\ interp = None /\ rows = <<>>

\* scenario = apply_interventions(base, iv)
ApplyInterventions ==
    /\ pc = "apply"
    /\ scenario' = Some(apply_interventions(base, iv))
    /\ pc' = "applied"
    /\ UNCHANGED <<base, iv, modelVars, driverVars, timelineVars>>

NextInterventions == ApplyInterventions

SpecInterventions == InitInterventions /\ [][NextInterventions]_vars

-----------------------------------------------------------------------------
(* compute_drivers on a baseline and a scenario: specification SpecDrivers *)

DriverBases ==
    [age_years : {Fx(60), Tenths(791)}, sex : {"male"},
     race : {"white_or_other"},
     total_chol_mgdl : {Fx(213)}, hdl_mgdl : {Fx(50)},
     sbp_mmhg : {Fx(120), Fx(155)},
     on_bp_meds : {FALSE}, smoker : BOOLEAN, diabetes : BOOLEAN]

DriverScenarios ==
    [age_years : {Fx(60), Fx(70), Tenths(791)}, sex : Sex,
     race : {"white_or_other"},
     total_chol_mgdl : {Fx(213), Fx(260)}, hdl_mgdl : {Fx(50), Fx(38)},
     sbp_mmhg : {0, Fx(120), Fx(155)},
     on_bp_meds : BOOLEAN, smoker : BOOLEAN, diabetes : BOOLEAN]

InitDrivers ==
    /\ base \in DriverBases
    /\ scenario \in {Some(s) : s \in DriverScenarios}
    /\ iv = None
    /\ drivers = None
    /\ pc = "drivers"
    /\ ModelIdle
    /\ months = 0 /\ m = 0 /\ interp = None /\ rows = <<>>

\* drivers = compute_drivers(base, scenario)
ComputeDrivers ==
    /\ pc = "drivers"
    /\ \E b \in {base} : \E s \in {scenario[1]} :
          drivers' = Some(compute_drivers(b, s))
    /\ pc' = "drivers_done"
    /\ UNCHANGED <<scenarioVars, modelVars, timelineVars>>

NextDrivers == ComputeDrivers

SpecDrivers == InitDrivers /\ [][NextDrivers]_vars

-----------------------------------------------------------------------------
(* compute_timeline, one loop iteration per step: specification           *)
(* SpecTimeline.                                                           *)

MaxMonths == 4

TimelineBases ==
    [age_years : {Fx(55)}, sex : {"female"}, race : {"white_or_other"},
     total_chol_mgdl : {Fx(213)}, hdl_mgdl : {Fx(50)},
     sbp_mmhg : {Fx(150)},
     on_bp_meds : BOOLEAN, smoker : BOOLEAN, diabetes : BOOLEAN]

TimelineScenarios ==
    [age_years : {Fx(55), Fx(60)}, sex : {"female"},
     race : {"white_or_other"},
     total_chol_mgdl : {Fx(213), Fx(173)}, hdl_mgdl : {Fx(50)},
     sbp_mmhg : {Fx(150), Fx(120)},
     on_bp_meds : BOOLEAN, smoker : BOOLEAN, diabetes : BOOLEAN]

InitTimeline ==
    /\ base \in TimelineBases
    /\ scenario \in {Some(s) : s \in TimelineScenarios}
    /\ months \in 0..MaxMonths
    /\ m = 0
    /\ interp = None
    /\ rows = <<>>
    /\ pc = "timeline"
    /\ iv = None
    /\ drivers = None
    /\ ModelIdle

\* One iteration of `for m in range(months + 1)`: the snapshot at ratio t is
\* built (interp), evaluated once (r) and its row appended.
TimelineStep ==
    /\ pc = "timeline"
    /\ m <= months
    /\ \E snapshot \in {Interpolated(base, scenario[1], StepRatio(m, months))} :
       \E r \in {risk_or_none(snapshot)} :
          /\ interp' = Some(snapshot)
          /\ IF r.exc /= ""
             THEN pc' = "timeline_raised" /\ UNCHANGED <<m, rows>>
             ELSE /\ rows' = Append(rows, [month |-> m,
                                           risk_pct_10y |-> r.value])
                  /\ m' = m + 1
                  /\ pc' = pc
    /\ UNCHANGED <<months, scenarioVars, modelVars, driverVars>>

\* The loop is over: the rows are returned as the DataFrame.
TimelineReturn ==
    /\ pc = "timeline"
    /\ m > months
    /\ pc' = "timeline_done"
    /\ UNCHANGED <<scenarioVars, modelVars, driverVars, timelineVars>>

NextTimeline == TimelineStep \/ TimelineReturn

SpecTimeline == InitTimeline /\ [][NextTimeline]_vars

-----------------------------------------------------------------------------
(* Properties of the model, under Spec *)

Fields ==
    {"age_years", "sex", "race", "total_chol_mgdl", "hdl_mgdl", "sbp_mmhg",
     "on_bp_meds", "smoker", "diabetes"}

\* a and b are equal in every field except f, where they differ.
DifferOnlyIn(a, b, f) ==
    /\ a[f] /= b[f]
    /\ \A g \in Fields \ {f} : a[g] = b[g]

HasRisk(r) == r.exc = "" /\ r.risk_pct_10y /= None
RiskOf(r) == r.risk_pct_10y[1]

\* The current call has returned and the one before it is recorded.
TwoCalls == pc = "returned" /\ prev /= None

\* C1: the result has no risk percentage exactly when age_years < 40 or
\* age_years > 79 (40 and 79 themselves produce one), whatever the other
\* fields are, and the diagnostics are absent exactly when the percentage is.
C1_AgeGate ==
    pc = "returned" =>
        /\ (res.exc = "" /\ res.risk_pct_10y = None)
              <=> (inp.age_years < 40000000 \/ inp.age_years > 79000000)
        /\ res.exc = "" => ((res.details = None) <=> (res.risk_pct_10y = None))

\* An age of 79.1 with an SBP of 0, which the logarithm would reject: the call
\* returns the empty result.
C1_Witness ==
    /\ pc = "returned"
    /\ inp.age_years = 79100000
    /\ inp.sbp_mmhg = 0
    /\ res.exc = "" /\ res.risk_pct_10y = None /\ res.details = None

\* C2: the group in the diagnostics is determined by (race, sex), the four
\* pairs give the four labels, and s0 and mean are that group's constants.
C2_GroupDispatch ==
    (pc = "returned" /\ res.details /= None) =>
        LET d == res.details[1]
            g == <<d.group, d.s0, d.mean>>
        IN  /\ (inp.race = "black" /\ inp.sex = "female")
                  => g = <<"black_female", 953340, 8660810>>
            /\ (inp.race = "white_or_other" /\ inp.sex = "female")
                  => g = <<"white_female", 966520, -2918170>>
            /\ (inp.race = "black" /\ inp.sex = "male")
                  => g = <<"black_male", 895360, 1954250>>
            /\ (inp.race = "white_or_other" /\ inp.sex = "male")
                  => g = <<"white_male", 914360, 6118160>>

\* Two successive calls that differ in SBP alone, for a black male: the
\* same group in both, reached through the third branch.
C2_Witness ==
    /\ TwoCalls
    /\ inp.race = "black" /\ inp.sex = "male"
    /\ DifferOnlyIn(prev[1].inp, inp, "sbp_mmhg")
    /\ res.details /= None /\ prev[1].res.details /= None
    /\ res.details[1].group = "black_male"
    /\ prev[1].res.details[1].group = "black_male"

\* C3 (as claimed): with age in [40, 79] and strictly positive cholesterol,
\* HDL and SBP the call returns without raising, with a percentage in
\* [0, 100].
C3_TotalOnPositiveInputs ==
    ( /\ pc = "returned"
      /\ inp.age_years >= 40000000 /\ inp.age_years <= 79000000
      /\ inp.total_chol_mgdl > 0 /\ inp.hdl_mgdl > 0 /\ inp.sbp_mmhg > 0 )
    => /\ res.exc = ""
       /\ res.risk_pct_10y /= None
       /\ res.risk_pct_10y[1] \in 0..1000

\* The smoker's percentage is at least the non-smoker's, in two calls that
\* differ in smoker alone.
SmokerNotLower ==
    LET p == prev[1]
    IN  IF inp.smoker THEN RiskOf(res) >= RiskOf(p.res)
        ELSE RiskOf(p.res) >= RiskOf(res)

SmokerPair ==
    /\ TwoCalls
    /\ DifferOnlyIn(prev[1].inp, inp, "smoker")
    /\ HasRisk(res) /\ HasRisk(prev[1].res)

\* C4 (as claimed): smoker=true never gives a lower percentage than
\* smoker=false, in every group and at every age in [40, 79].
C4_SmokerMonotoneEverywhere == SmokerPair => SmokerNotLower

\* C4 (amended): the same, in the black_female, white_female and black_male
\* groups at every age in [40, 79], and in the white_male group at every age
\* in [40, 78].
C4_SmokerMonotone ==
    ( /\ SmokerPair
      /\ ~(inp.race = "white_or_other" /\ inp.sex = "male"
            /\ inp.age_years > 78000000) )
    => SmokerNotLower

\* A white male of 78, first as a non-smoker and then as a smoker, with a
\* strictly higher percentage.
C4_Witness ==
    /\ SmokerPair
    /\ inp.race = "white_or_other" /\ inp.sex = "male"
    /\ inp.age_years = 78000000
    /\ inp.smoker
    /\ RiskOf(res) > RiskOf(prev[1].res)

SbpPair ==
    /\ TwoCalls
    /\ DifferOnlyIn(prev[1].inp, inp, "sbp_mmhg")
    /\ inp.sbp_mmhg > 0 /\ prev[1].inp.sbp_mmhg > 0
    /\ HasRisk(res) /\ HasRisk(prev[1].res)

\* C5: of two calls that differ in sbp_mmhg alone (both positive), the one
\* with the larger SBP has a percentage at least the other's, in every group.
C5_SbpMonotone ==
    SbpPair =>
        IF inp.sbp_mmhg > prev[1].inp.sbp_mmhg
        THEN RiskOf(res) >= RiskOf(prev[1].res)
        ELSE RiskOf(res) <= RiskOf(prev[1].res)

\* A treated black female of 79, the SBP raised from 120 to 200, with a
\* strictly higher percentage although the age x log-SBP coefficient is
\* negative.
C5_Witness ==
    /\ SbpPair
    /\ inp.race = "black" /\ inp.sex = "female"
    /\ inp.age_years = 79000000
    /\ inp.on_bp_meds
    /\ prev[1].inp.sbp_mmhg = 120000000 /\ inp.sbp_mmhg = 200000000
    /\ RiskOf(res) > RiskOf(prev[1].res)

\* The call got as far as the SBP channels: the age gate passed and no
\* logarithm raised.
ChannelsComputed(i) ==
    /\ i.age_years >= 40000000 /\ i.age_years <= 79000000
    /\ i.total_chol_mgdl > 0 /\ i.hdl_mgdl > 0 /\ i.sbp_mmhg > 0

ExactlyOneChannel(i) == (tr_ln_sbp(i) /= 0) /= (nt_ln_sbp(i) /= 0)

ChannelValues(i) ==
    IF i.on_bp_meds
    THEN tr_ln_sbp(i) = MathLog(i.sbp_mmhg) /\ nt_ln_sbp(i) = 0
    ELSE tr_ln_sbp(i) = 0 /\ nt_ln_sbp(i) = MathLog(i.sbp_mmhg)

ChannelsSwap ==
    ( /\ prev /= None
      /\ ChannelsComputed(prev[1].inp)
      /\ DifferOnlyIn(prev[1].inp, inp, "on_bp_meds") )
    => /\ tr_ln_sbp(inp) = nt_ln_sbp(prev[1].inp)
       /\ nt_ln_sbp(inp) = tr_ln_sbp(prev[1].inp)

\* C6 (as claimed): in every call that passes the age gate exactly one of
\* the two log-SBP channels is non-zero, the treated one being log(sbp) under
\* medication and the untreated one otherwise, and flipping on_bp_meds swaps
\* them.
C6_ExactlyOneChannel ==
    (pc = "returned" /\ ChannelsComputed(inp)) =>
        /\ ExactlyOneChannel(inp)
        /\ ChannelValues(inp)
        /\ ChannelsSwap

\* C6 (amended): the treated channel is log(sbp) and the untreated one 0
\* under medication, and the reverse without; flipping on_bp_meds swaps the
\* two; exactly one of them is non-zero unless sbp_mmhg = 1, where log(sbp) = 0
\* and both are zero.
C6_Channels ==
    (pc = "returned" /\ ChannelsComputed(inp)) =>
        /\ ChannelValues(inp)
        /\ ChannelsSwap
        /\ ExactlyOneChannel(inp) <=> (inp.sbp_mmhg /= 1000000)

\* on_bp_meds switched on at an SBP of 120: log(120) moves from the
\* untreated to the treated channel.
C6_Witness ==
    /\ TwoCalls
    /\ DifferOnlyIn(prev[1].inp, inp, "on_bp_meds")
    /\ inp.on_bp_meds
    /\ inp.sbp_mmhg = 120000000
    /\ HasRisk(res)
    /\ tr_ln_sbp(inp) > 0 /\ nt_ln_sbp(inp) = 0
    /\ nt_ln_sbp(prev[1].inp) = tr_ln_sbp(inp)

-----------------------------------------------------------------------------
(* Properties of apply_interventions, under SpecInterventions *)

\* x brought into [lo, hi].
Clamped(x, lo, hi) == IF x < lo THEN lo ELSE IF x > hi THEN hi ELSE x

\* C10: the returned scenario has smoker = false when quit_smoking is set,
\* on_bp_meds = true when start_bp_meds is set, sbp_mmhg = the target clamped
\* to [90, 200] when a target is given, total_chol_mgdl = the baseline's plus
\* the delta clamped to [130, 320] when a non-zero delta is given, and
\* hdl_mgdl = the baseline's plus the delta clamped to [20, 100] when a
\* non-zero delta is given.
C10_InterventionsApplied ==
    pc = "applied" =>
        LET s == scenario[1]
        IN  /\ iv.quit_smoking => s.smoker = FALSE
            /\ iv.start_bp_meds => s.on_bp_meds = TRUE
            /\ iv.sbp_target /= None =>
                  s.sbp_mmhg = Clamped(iv.sbp_target[1], 90000000, 200000000)
            /\ (iv.tc_delta /= None /\ iv.tc_delta[1] /= 0) =>
                  s.total_chol_mgdl =
                      Clamped(base.total_chol_mgdl + iv.tc_delta[1],
                              130000000, 320000000)
            /\ (iv.hdl_delta /= None /\ iv.hdl_delta[1] /= 0) =>
                  s.hdl_mgdl =
                      Clamped(base.hdl_mgdl + iv.hdl_delta[1],
                              20000000, 100000000)

\* All five interventions at once on an untreated smoker: the target of 230
\* is cut to 200, the cholesterol of 130 lowered by 80 stays at 130, the HDL
\* of 50 becomes 51.
C10_Witness ==
    /\ pc = "applied"
    /\ base.smoker /\ ~base.on_bp_meds
    /\ base.total_chol_mgdl = 130000000 /\ base.hdl_mgdl = 50000000
    /\ iv.quit_smoking /\ iv.start_bp_meds
    /\ iv.sbp_target = Some(230000000)
    /\ iv.tc_delta = Some(-80000000)
    /\ iv.hdl_delta = Some(1000000)
    /\ ~scenario[1].smoker /\ scenario[1].on_bp_meds
    /\ scenario[1].sbp_mmhg = 200000000
    /\ scenario[1].total_chol_mgdl = 130000000
    /\ scenario[1].hdl_mgdl = 51000000

\* No intervention of iv is active: both flags false, no target, each delta
\* absent or 0.
NoIntervention ==
    /\ ~iv.quit_smoking /\ ~iv.start_bp_meds
    /\ iv.sbp_target = None
    /\ iv.tc_delta \in {None, Some(0)}
    /\ iv.hdl_delta \in {None, Some(0)}

\* The returned scenario differs from the baseline at most in the fields of
\* the active interventions.
OnlyTargetedFieldsChange ==
    pc = "applied" =>
        LET s == scenario[1]
        IN  /\ s.age_years = base.age_years
            /\ s.sex = base.sex
            /\ s.race = base.race
            /\ s.diabetes = base.diabetes
            /\ ~iv.quit_smoking => s.smoker = base.smoker
            /\ ~iv.start_bp_meds => s.on_bp_meds = base.on_bp_meds
            /\ iv.sbp_target = None => s.sbp_mmhg = base.sbp_mmhg
            /\ iv.tc_delta \in {None, Some(0)} =>
                  s.total_chol_mgdl = base.total_chol_mgdl
            /\ iv.hdl_delta \in {None, Some(0)} =>
                  s.hdl_mgdl = base.hdl_mgdl
            /\ NoIntervention => s = base

\* C11: apply_interventions never changes its baseline argument, and in the
\* returned scenario age_years, sex, race and diabetes are the baseline's,
\* every field whose intervention is absent (flag false, no target, delta 0)
\* is the baseline's, and with no active intervention the scenario equals
\* the baseline in every field.
C11_FrameOfInterventions ==
    /\ []OnlyTargetedFieldsChange
    /\ [][base' = base]_vars

\* quit_smoking alone, on a smoker whose cholesterol of 100, HDL of 110 and
\* SBP of 210 lie outside the clamping ranges: the scenario is the baseline
\* with smoker = false, nothing clamped.
C11_Witness ==
    /\ pc = "applied"
    /\ iv.quit_smoking /\ ~iv.start_bp_meds
    /\ iv.sbp_target = None
    /\ iv.tc_delta = Some(0) /\ iv.hdl_delta = Some(0)
    /\ base.smoker
    /\ base.total_chol_mgdl = 100000000
    /\ base.hdl_mgdl = 110000000
    /\ base.sbp_mmhg = 210000000
    /\ scenario[1] = [base EXCEPT !.smoker = FALSE]

-----------------------------------------------------------------------------
(* Properties of compute_drivers, under SpecDrivers *)

ValidAge(i) == i.age_years >= 40000000 /\ i.age_years <= 79000000

\* compute_drivers has returned a list for two inputs of valid age.
DriversReturned ==
    /\ pc = "drivers_done"
    /\ drivers[1].exc = ""
    /\ ValidAge(base) /\ ValidAge(scenario[1])

DriverFields ==
    {"smoker", "sbp_mmhg", "on_bp_meds", "total_chol_mgdl", "hdl_mgdl",
     "diabetes"}

DriverLabel(f) ==
    CASE f = "smoker" -> "Smoking"
      [] f = "sbp_mmhg" -> "Systolic BP"
      [] f = "on_bp_meds" -> "BP medication"
      [] f = "total_chol_mgdl" -> "Total cholesterol"
      [] f = "hdl_mgdl" -> "HDL"
      [] f = "diabetes" -> "Diabetes"

\* The model's risk on the baseline with field f alone replaced by the
\* scenario's value, minus its risk on the baseline.
HybridDelta(f) ==
    RiskOf(compute_10y_ascvd_pce2013([base EXCEPT ![f] = scenario[1][f]]))
      - RiskOf(compute_10y_ascvd_pce2013(base))

\* The list has one entry for each field of F that differs, the entry of a
\* driver field carries its label and its hybrid delta, and the entries are
\* in non-increasing order of |delta|.
DriversAre(F) ==
    LET ch == drivers[1].changes
        D == {f \in F : base[f] /= scenario[1][f]}
    IN  /\ Len(ch) = Cardinality(D)
        /\ \A f \in D \cap DriverFields :
              \E k \in 1..Len(ch) : ch[k] = <<DriverLabel(f), HybridDelta(f)>>
        /\ \A k \in 1..(Len(ch) - 1) : Abs(ch[k][2]) >= Abs(ch[k + 1][2])

\* C8 (as claimed): for a baseline and a scenario of valid age the list has
\* one entry for each field whose value differs, each with the delta of its
\* hybrid input against the baseline, in non-increasing order of |delta|.
C8_EntryPerDifferingField == DriversReturned => DriversAre(Fields)

\* C8 (amended): the same with one entry for each of the six fields smoker,
\* sbp_mmhg, on_bp_meds, total_chol_mgdl, hdl_mgdl and diabetes whose value
\* differs, and no entry for a difference in age_years, sex or race.
C8_EntryPerDifferingDriverField == DriversReturned => DriversAre(DriverFields)

\* A baseline and a scenario that differ in smoker, sbp_mmhg and sex: two
\* entries, Systolic BP and Smoking, the first with the strictly larger
\* |delta|, and none for sex.
C8_Witness ==
    /\ DriversReturned
    /\ {f \in Fields : base[f] /= scenario[1][f]} = {"smoker", "sbp_mmhg", "sex"}
    /\ Len(drivers[1].changes) = 2
    /\ {drivers[1].changes[k][1] : k \in 1..2} = {"Smoking", "Systolic BP"}
    /\ Abs(drivers[1].changes[1][2]) > Abs(drivers[1].changes[2][2])
    /\ drivers[1].changes[2][2] /= 0

-----------------------------------------------------------------------------
(* Properties of compute_timeline, under SpecTimeline *)

\* The step whose snapshot interp holds.
SnapshotStep == IF pc = "timeline_raised" THEN m ELSE m - 1

\* t < 0.5 at the snapshot's step, t being m/months, or 1.0 when months = 0.
BeforeMidpoint == months > 0 /\ 2 * SnapshotStep < months

\* Field f of the snapshot is the baseline's before the midpoint and the
\* scenario's from it on.
SwitchesAtMidpoint(f) ==
    interp[1][f] = IF BeforeMidpoint THEN base[f] ELSE scenario[1][f]

\* C9 (as claimed): in every snapshot smoker, on_bp_meds and diabetes equal
\* the baseline's value at a step with t < 0.5 and the scenario's value at a
\* step with t >= 0.5, and age_years equals the baseline's.
C9_BooleansSwitchAtMidpoint ==
    interp /= None =>
        /\ SwitchesAtMidpoint("smoker")
        /\ SwitchesAtMidpoint("on_bp_meds")
        /\ SwitchesAtMidpoint("diabetes")
        /\ interp[1].age_years = base.age_years

\* What the snapshots do satisfy: smoker and on_bp_meds switch at the
\* midpoint, diabetes is the scenario's at every step, age_years, sex and
\* race are the baseline's.
TimelineSnapshots ==
    interp /= None =>
        /\ SwitchesAtMidpoint("smoker")
        /\ SwitchesAtMidpoint("on_bp_meds")
        /\ interp[1].diabetes = scenario[1].diabetes
        /\ interp[1].age_years = base.age_years
        /\ interp[1].sex = base.sex /\ interp[1].race = base.race

====
